---- MODULE Spec2Model ----
(***************************************************************************)
(* Classification, routing and the single-pass workflow of the real-estate *)
(* chatbot (agents/router.py, utils/validators.py, graph/workflow.py,      *)
(* models/inputs.py, agents/vision_agent.py, agents/faq_agent.py).         *)
(*                                                                         *)
(* A Python str is a sequence of one-character strings.  An optional text  *)
(* is a record [k, s]: k = "str" with its characters in s, k = "None" for  *)
(* None and k = "Missing" for a key that is absent from the dict.  Other   *)
(* optional fields hold a token, "None", or "Missing".                     *)
(***************************************************************************)
EXTENDS Integers, Sequences, FiniteSets, TLC

VARIABLES
    entry,      \* which entry point the caller used
    given,      \* the dict handed to the entry point (state under test / query_dict)
    user_input, \* the UserQuery built from it
    state,      \* the AgentState dict the nodes read and update
    pc,         \* position of the call
    route,      \* what route_to_agent returned, or the exception it raised
    response,   \* what process_query returned to its caller
    calls,      \* nodes run and external capabilities invoked so far, in order
    found,      \* what a direct call of extract_keywords returned
    other,      \* the call of a second thread while it is not running
    served,     \* how many calls this chatbot has finished before this one
    asked       \* the user query the handler put into its message to the model

vars ==
    <<entry, given, user_input, state, pc, route, response, calls, found, other, served,
      asked>>

\* the number of earlier calls looked at
MaxCalls == 2

(***************************************************************************)
(* Bounds of the explored inputs.                                          *)
(***************************************************************************)
MaxParts == 3

(***************************************************************************)
(* Python values.                                                          *)
(***************************************************************************)
Str(s) == [k |-> "str", s |-> s]
None == [k |-> "None", s |-> <<>>]
Missing == [k |-> "Missing", s |-> <<>>]

\* dict.get(key): None when the key is absent
Get(v) == IF v = Missing THEN None ELSE v
\* dict.get(key, default)
GetOr(v, d) == IF v = Missing THEN d ELSE v
\* truthiness of an optional str
Truthy(v) == v.k = "str" /\ v.s # <<>>
\* the same for a token field
GetTok(v) == IF v = "Missing" THEN "None" ELSE v
TruthyTok(v) == v \notin {"Missing", "None", ""}

(***************************************************************************)
(* Characters.                                                             *)
(***************************************************************************)
UpperCase ==
    <<"A", "B", "C", "D", "E", "F", "G", "H", "I", "J", "K", "L", "M",
      "N", "O", "P", "Q", "R", "S", "T", "U", "V", "W", "X", "Y", "Z">>
LowerCase ==
    <<"a", "b", "c", "d", "e", "f", "g", "h", "i", "j", "k", "l", "m",
      "n", "o", "p", "q", "r", "s", "t", "u", "v", "w", "x", "y", "z">>
Digits == {"0", "1", "2", "3", "4", "5", "6", "7", "8", "9"}
Range(f) == {f[i] : i \in DOMAIN f}
UpperChars == Range(UpperCase)
WordChars == Range(UpperCase) \cup Range(LowerCase) \cup Digits \cup {"_"}

\* \s of the re module, str.isspace
IsSpace(c) == c \in {" ", "\t", "\n", "\r", "\f"}
\* \w of the re module
IsWord(c) == c \in WordChars
\* the class [\w\s\-.,!?\'\"()] whose complement clean_text removes
IsKept(c) == IsWord(c) \/ IsSpace(c) \/ c \in {"-", ".", ",", "!", "?", "'", "\"", "(", ")"}

LowerChar(c) ==
    IF c \in UpperChars
    THEN LowerCase[CHOOSE i \in DOMAIN UpperCase : UpperCase[i] = c]
    ELSE c
\* str.lower
Lower(s) == [i \in 1..Len(s) |-> LowerChar(s[i])]

\* re.sub(r'\s+', ' ', s): every maximal run of whitespace becomes one space
\* the positions that survive: every character but a whitespace that
\* follows a whitespace
CollapseKept(s) ==
    SelectSeq([i \in 1..Len(s) |-> i],
              LAMBDA i : ~(IsSpace(s[i]) /\ i > 1 /\ IsSpace(s[i - 1])))
CollapseWhitespace(s) ==
    LET kept == CollapseKept(s)
    IN [k \in 1..Len(kept) |-> IF IsSpace(s[kept[k]]) THEN " " ELSE s[kept[k]]]

\* str.strip
RECURSIVE LStrip(_)
LStrip(s) == IF s # <<>> /\ IsSpace(Head(s)) THEN LStrip(Tail(s)) ELSE s
RECURSIVE RStrip(_)
RStrip(s) == IF s # <<>> /\ IsSpace(s[Len(s)]) THEN RStrip(SubSeq(s, 1, Len(s) - 1)) ELSE s
Strip(s) == RStrip(LStrip(s))

\* re.sub(r'[^\w\s\-.,!?\'\"()]', '', s)
RemoveSpecial(s) == SelectSeq(s, IsKept)

\* sub in s
Contains(sub, s) == \E i \in 0..(Len(s) - Len(sub)) : SubSeq(s, i + 1, i + Len(sub)) = sub
\* s.startswith(p)
StartsWith(s, p) == Len(p) <= Len(s) /\ SubSeq(s, 1, Len(p)) = p

(***************************************************************************)
(* config/settings.py                                                      *)
(***************************************************************************)
MAINTENANCE_KEYWORDS ==
    << <<"c", "r", "a", "c", "k">>,
       <<"l", "e", "a", "k">>,
       <<"d", "a", "m", "a", "g", "e">>,
       <<"b", "r", "o", "k", "e", "n">>,
       <<"m", "o", "l", "d">>,
       <<"m", "o", "u", "l", "d">>,
       <<"w", "a", "l", "l">>,
       <<"c", "e", "i", "l", "i", "n", "g">>,
       <<"p", "a", "i", "n", "t">>,
       <<"f", "l", "o", "o", "r">>,
       <<"w", "i", "n", "d", "o", "w">>,
       <<"d", "o", "o", "r">>,
       <<"w", "a", "t", "e", "r">>,
       <<"d", "a", "m", "p">>,
       <<"s", "t", "a", "i", "n">>,
       <<"p", "e", "e", "l", "i", "n", "g">>,
       <<"f", "i", "x", "t", "u", "r", "e">>,
       <<"p", "l", "u", "m", "b", "i", "n", "g">> >>

TENANCY_KEYWORDS ==
    << <<"l", "a", "n", "d", "l", "o", "r", "d">>,
       <<"t", "e", "n", "a", "n", "t">>,
       <<"r", "e", "n", "t">>,
       <<"d", "e", "p", "o", "s", "i", "t">>,
       <<"e", "v", "i", "c", "t">>,
       <<"e", "v", "i", "c", "t", "i", "o", "n">>,
       <<"l", "e", "a", "s", "e">>,
       <<"c", "o", "n", "t", "r", "a", "c", "t">>,
       <<"n", "o", "t", "i", "c", "e">>,
       <<"a", "g", "r", "e", "e", "m", "e", "n", "t">>,
       <<"r", "e", "n", "t", "a", "l">>,
       <<"t", "e", "n", "a", "n", "c", "y">>,
       <<"s", "e", "c", "u", "r", "i", "t", "y", " ", "d", "e", "p", "o", "s", "i", "t">>,
       <<"v", "a", "c", "a", "t", "e">>,
       <<"t", "e", "r", "m", "i", "n", "a", "t", "i", "o", "n">> >>


(***************************************************************************)
(* utils/validators.py                                                     *)
(***************************************************************************)
clean_text(text) ==
    IF text = <<>> THEN <<>>
    ELSE RemoveSpecial(Strip(CollapseWhitespace(text)))

\* keywords matched against the text as written, without lower-casing it
extract_keywords_case_sensitive(text, keyword_list) ==
    IF text = <<>> THEN <<>>
    ELSE SelectSeq(keyword_list, LAMBDA kw : Contains(Lower(kw), text))

extract_keywords(text, keyword_list) ==
    IF text = <<>> THEN <<>>
    ELSE SelectSeq(keyword_list, LAMBDA kw : Contains(Lower(kw), Lower(text)))

(***************************************************************************)
(* models/state.py: the AgentState dict.  Every key may be absent.         *)
(***************************************************************************)
EmptyState ==
    [ text_query |-> Missing, image_path |-> "Missing", user_location |-> "Missing",
      base64_image |-> "Missing", input_type |-> "Missing",
      agent_response |-> "Missing", agent_used |-> "Missing",
      detected_issues |-> "Missing", suggestions |-> "Missing",
      confidence_score |-> "Missing", needs_clarification |-> "Missing",
      error_message |-> "Missing", error_type |-> "Missing" ]

\* dict.update / the write of a node's returned dict into the state channels:
\* every returned key is written, a returned None included
Update(st, out) == [f \in DOMAIN st |-> IF f \in DOMAIN out THEN out[f] ELSE st[f]]

(***************************************************************************)
(* agents/router.py                                                        *)
(***************************************************************************)
\* a classification that looks at the image first and never reports both
classify_input_image_first(st) ==
    LET image_path == GetTok(st.image_path)
        raw == Get(st.text_query)
        cleaned == IF Truthy(raw) THEN Str(clean_text(raw.s)) ELSE raw
        text_query == IF Truthy(raw) /\ ~Truthy(cleaned) THEN None ELSE cleaned
        input_type ==
            IF TruthyTok(image_path) THEN "image_only"
            ELSE IF Truthy(text_query) THEN "text_only"
            ELSE "error"
    IN [input_type |-> input_type, text_query |-> text_query]

\* classify_input without lines 29-30: an emptied text is not turned into None
classify_input_keeps_empty(st) ==
    LET image_path == GetTok(st.image_path)
        raw == Get(st.text_query)
        text_query == IF Truthy(raw) THEN Str(clean_text(raw.s)) ELSE raw
        input_type ==
            IF TruthyTok(image_path) /\ ~Truthy(text_query) THEN "image_only"
            ELSE IF Truthy(text_query) /\ ~TruthyTok(image_path) THEN "text_only"
            ELSE IF Truthy(text_query) /\ TruthyTok(image_path) THEN "text_and_image"
            ELSE "error"
    IN [input_type |-> input_type, text_query |-> text_query]

classify_input(st) ==
    LET image_path == GetTok(st.image_path)
        raw == Get(st.text_query)
        cleaned == IF Truthy(raw) THEN Str(clean_text(raw.s)) ELSE raw
        text_query == IF Truthy(raw) /\ ~Truthy(cleaned) THEN None ELSE cleaned
        input_type ==
            IF TruthyTok(image_path) /\ ~Truthy(text_query) THEN "image_only"
            ELSE IF Truthy(text_query) /\ ~TruthyTok(image_path) THEN "text_only"
            ELSE IF Truthy(text_query) /\ TruthyTok(image_path) THEN "text_and_image"
            ELSE "error"
    IN [input_type |-> input_type, text_query |-> text_query]

question_indicators ==
    << <<"h", "o", "w">>,
       <<"w", "h", "a", "t">>,
       <<"w", "h", "e", "n">>,
       <<"w", "h", "e", "r", "e">>,
       <<"w", "h", "y">>,
       <<"c", "a", "n">>,
       <<"s", "h", "o", "u", "l", "d">>,
       <<"i", "s">>,
       <<"a", "r", "e">>,
       <<"d", "o">>,
       <<"d", "o", "e", "s">> >>

IsQuestion(text_query) ==
    \/ \E i \in DOMAIN question_indicators :
           StartsWith(Strip(text_query), question_indicators[i])
    \/ Contains(<<"?">>, text_query)

\* RouteTextOnly with the maintenance test moved before the tenancy test
RouteTextOnly_maintenance_first(text_query) ==
    IF extract_keywords(text_query, MAINTENANCE_KEYWORDS) # <<>> THEN "clarification"
    ELSE IF extract_keywords(text_query, TENANCY_KEYWORDS) # <<>> THEN "agent_2_faq"
    ELSE IF IsQuestion(text_query) THEN "agent_2_faq"
    ELSE "clarification"

\* RouteTextOnly with the question test moved before the maintenance test
RouteTextOnly_question_first(text_query) ==
    IF extract_keywords(text_query, TENANCY_KEYWORDS) # <<>> THEN "agent_2_faq"
    ELSE IF IsQuestion(text_query) THEN "agent_2_faq"
    ELSE IF extract_keywords(text_query, MAINTENANCE_KEYWORDS) # <<>> THEN "clarification"
    ELSE "clarification"

\* RouteTextOnly with startswith applied to the unstripped text
RouteTextOnly_no_strip(text_query) ==
    IF extract_keywords(text_query, TENANCY_KEYWORDS) # <<>> THEN "agent_2_faq"
    ELSE IF extract_keywords(text_query, MAINTENANCE_KEYWORDS) # <<>> THEN "clarification"
    ELSE IF \/ \E i \in DOMAIN question_indicators :
                   StartsWith(text_query, question_indicators[i])
            \/ Contains(<<"?">>, text_query)
         THEN "agent_2_faq"
    ELSE "clarification"

\* the text_only branch of route_to_agent; text_query is already lower-cased
RouteTextOnly(text_query) ==
    LET maintenance_kw == extract_keywords(text_query, MAINTENANCE_KEYWORDS)
        tenancy_kw == extract_keywords(text_query, TENANCY_KEYWORDS)
        is_question == IsQuestion(text_query)
    IN IF tenancy_kw # <<>> THEN "agent_2_faq"
       ELSE IF maintenance_kw # <<>> THEN "clarification"
       ELSE IF is_question THEN "agent_2_faq"
       ELSE "clarification"

\* route_to_agent without the text_and_image branch of lines 76-79: a text
\* that comes with an image is routed on its keywords
route_to_agent_text_first(st) ==
    LET input_type == IF st.input_type = "Missing" THEN "error" ELSE st.input_type
        tq == GetOr(st.text_query, Str(<<>>))
    IN IF tq.k # "str" THEN "AttributeError"
       ELSE IF input_type = "error" THEN "error"
       ELSE IF input_type = "image_only" THEN "agent_1_vision"
       ELSE IF input_type \in {"text_only", "text_and_image"} THEN RouteTextOnly(Lower(tq.s))
       ELSE "error"

\* a router that sends every located text question to the FAQ handler
route_to_agent_by_location(st) ==
    LET input_type == IF st.input_type = "Missing" THEN "error" ELSE st.input_type
        tq == GetOr(st.text_query, Str(<<>>))
    IN IF tq.k # "str" THEN "AttributeError"
       ELSE IF input_type = "error" THEN "error"
       ELSE IF input_type = "image_only" THEN "agent_1_vision"
       ELSE IF input_type = "text_and_image" THEN "agent_1_vision"
       ELSE IF input_type = "text_only" /\ TruthyTok(st.user_location) THEN "agent_2_faq"
       ELSE IF input_type = "text_only" THEN RouteTextOnly(Lower(tq.s))
       ELSE "error"

\* The value returned, or "AttributeError" when state.get('text_query', '')
\* is None and .lower() is applied to it, before input_type is looked at.
route_to_agent(st) ==
    LET input_type == IF st.input_type = "Missing" THEN "error" ELSE st.input_type
        tq == GetOr(st.text_query, Str(<<>>))
    IN IF tq.k # "str" THEN "AttributeError"
       ELSE IF input_type = "error" THEN "error"
       ELSE IF input_type = "image_only" THEN "agent_1_vision"
       ELSE IF input_type = "text_and_image" THEN "agent_1_vision"
       ELSE IF input_type = "text_only" THEN RouteTextOnly(Lower(tq.s))
       ELSE "error"

(***************************************************************************)
(* Inputs explored: texts are concatenations of at most MaxParts fragments.*)
(***************************************************************************)
Fragments ==
    << <<"p", "a">>,
       <<"R", "e", "n", "t">>,
       <<"l", "e", "a", "k">>,
       <<"i", "s">>,
       <<"?">>,
       <<" ">>,
       <<"\t">>,
       <<"@">> >>

RECURSIVE Flatten(_)
Flatten(p) == IF p = <<>> THEN <<>> ELSE Fragments[Head(p)] \o Flatten(Tail(p))

Texts == {Flatten(p) : p \in UNION {[1..n -> DOMAIN Fragments] : n \in 0..MaxParts}}
OptTexts == {Missing, None} \cup {Str(t) : t \in Texts}
ImagePaths == {"Missing", "/some/path.jpg"}
InputTypes == {"text_only", "image_only", "text_and_image", "error"}
Destinations == {"agent_1_vision", "agent_2_faq", "clarification", "error"}

NoUserQuery ==
    [ok |-> FALSE, text_query |-> None, image_path |-> "None", user_location |-> "None"]
ValidationError == NoUserQuery

\* no handler has built a message for a model
NotAsked == [k |-> "NotAsked", s |-> <<>>]
NoFound == [keyword_list |-> "None", keywords |-> <<>>]
\* no second thread
NoThread == [entry |-> "None"]

NoResponse ==
    [ response |-> "None", agent_used |-> "None", needs_clarification |-> "None",
      detected_issues |-> "None", confidence_score |-> "None", suggestions |-> "None" ]

(***************************************************************************)
(* Direct calls of classify_input and route_to_agent on a state dict, as   *)
(* tests/test_agents.py makes them: route alone, or classify, update the   *)
(* state with the output, then route.                                      *)
(***************************************************************************)
\* states not classified yet, and classified states as TestRouting builds them
\* a text that holds several keywords, one of them of two words, in an
\* order other than the table's
KeywordTexts ==
    { <<"S", "e", "c", "u", "r", "i", "t", "y", " ", "D", "e", "p",
       "o", "s", "i", "t", " ", "r", "e", "n", "t", "a", "l">> }

TestStates ==
    { [EmptyState EXCEPT !.text_query = t, !.image_path = i] :
        t \in OptTexts \cup {Str(t) : t \in KeywordTexts}, i \in ImagePaths }
    \cup
    { [EmptyState EXCEPT !.text_query = t, !.input_type = ty] :
        t \in OptTexts, ty \in InputTypes \cup {"unknown"} }

InitRouter ==
    /\ entry = "test"
    /\ found = NoFound
    /\ asked = NotAsked
    /\ other = NoThread
    /\ served = 0
    /\ given \in TestStates
    /\ user_input = NoUserQuery
    /\ state = given
    /\ pc = "test"
    /\ route = "None"
    /\ response = NoResponse
    /\ calls = <<>>

\* classify_input is called on a state that carries no input_type yet
CallClassify ==
    /\ pc = "test"
    /\ state.input_type = "Missing"
    /\ state' = Update(state, classify_input(state))
    /\ pc' = "classified"
    /\ UNCHANGED <<asked, found, other, served, entry, given, user_input, route, response, calls>>

CallRoute ==
    /\ pc \in {"test", "classified"}
    /\ route' = route_to_agent(state)
    /\ pc' = IF pc = "test" THEN "routed" ELSE "classified_routed"
    /\ UNCHANGED <<asked, found, other, served, entry, given, user_input, state, response, calls>>

\* the keyword tables of config/settings.py, by name
KeywordLists ==
    [MAINTENANCE_KEYWORDS |-> MAINTENANCE_KEYWORDS,
     TENANCY_KEYWORDS |-> TENANCY_KEYWORDS]

\* extract_keywords is called on a text and one of the keyword tables
CallExtractKeywords ==
    /\ pc = "test"
    /\ state.input_type = "Missing"
    /\ state.image_path = "Missing"
    /\ state.text_query.k = "str"
    /\ \E name \in DOMAIN KeywordLists :
          found' = [keyword_list |-> name,
                    keywords |-> extract_keywords(state.text_query.s, KeywordLists[name])]
    /\ pc' = "extracted"
    /\ UNCHANGED <<asked, other, served, entry, given, user_input, state, route, response, calls>>

\* classify_input is called again on the state that holds its own output
CallReclassify ==
    /\ pc = "classified"
    /\ state' = Update(state, classify_input(state))
    /\ pc' = "reclassified"
    /\ UNCHANGED <<asked, found, other, served, entry, given, user_input, route, response, calls>>

NextRouter == CallClassify \/ CallRoute \/ CallExtractKeywords \/ CallReclassify

SpecRouter == InitRouter /\ [][NextRouter]_vars

(***************************************************************************)
(* Properties of the direct calls, checked under SpecRouter.               *)
(***************************************************************************)
ImagePresent(d) == TruthyTok(GetTok(d.image_path))
\* the text key is missing, None, or a text that normalizes to empty
TextAbsent(d) == d.text_query.k # "str" \/ clean_text(d.text_query.s) = <<>>
ContainsKeyword(text, keyword_list) ==
    \E i \in DOMAIN keyword_list : Contains(Lower(keyword_list[i]), Lower(text))
Routed == pc \in {"routed", "classified_routed"}
AllOf(text, P(_)) == \A i \in DOMAIN text : P(text[i])
IsDropped(c) == ~IsKept(c)
IsPunctuation(c) == ~IsWord(c) /\ ~IsSpace(c)

\* C1: with an image present and the text absent, route_to_agent applied to
\* the state updated with classify_input's output returns agent_1_vision.
C1_ImageOnlyRoutesToVision ==
    (pc = "classified_routed" /\ ImagePresent(given) /\ TextAbsent(given))
        => route = "agent_1_vision"

\* C2: with an image and a text that normalizes to non-empty, whatever the
\* text contains, route_to_agent on the classified state returns
\* agent_1_vision.
C2_TextAndImageRoutesToVision ==
    (pc = "classified_routed" /\ ImagePresent(given) /\ ~TextAbsent(given))
        => route = "agent_1_vision"

C2_Witness ==
    /\ pc = "classified_routed"
    /\ ImagePresent(given)
    /\ ~TextAbsent(given)
    /\ ContainsKeyword(state.text_query.s, TENANCY_KEYWORDS)
    /\ ContainsKeyword(state.text_query.s, MAINTENANCE_KEYWORDS)
    /\ route = "agent_1_vision"

\* C3: with no image and a text that is missing, empty or whitespace-only,
\* classify_input yields input_type 'error' and route_to_agent on the
\* updated state returns 'error'.
C3_NoInputRoutesToError ==
    ( /\ pc \in {"classified", "classified_routed"}
      /\ ~ImagePresent(given)
      /\ (given.text_query.k = "str" => AllOf(given.text_query.s, IsSpace)) )
        => /\ state.input_type = "error"
           /\ pc = "classified_routed" => route = "error"

\* C4: on every state whose input_type is one of the four shapes and whose
\* text_query is a string, None or missing, route_to_agent returns one of
\* the four destinations and does not raise.
C4_RouterTotal ==
    (Routed /\ state.input_type \in InputTypes) => route \in Destinations

C7_TenancyRoutesToFaq ==
    ( /\ Routed
      /\ state.input_type = "text_only"
      /\ state.text_query.k = "str"
      /\ ContainsKeyword(state.text_query.s, TENANCY_KEYWORDS) )
        => route = "agent_2_faq"

C7_Witness ==
    /\ Routed
    /\ state.input_type = "text_only"
    /\ state.text_query.k = "str"
    /\ Contains(<<"p", "a", "r", "e", "n", "t">>, Lower(state.text_query.s))
    /\ ContainsKeyword(state.text_query.s, MAINTENANCE_KEYWORDS)
    /\ route = "agent_2_faq"

\* C8: a text_only state whose text contains a maintenance keyword and no
\* tenancy keyword is routed to clarification, phrased as a question or not.
C8_MaintenanceRoutesToClarification ==
    ( /\ Routed
      /\ state.input_type = "text_only"
      /\ state.text_query.k = "str"
      /\ ContainsKeyword(state.text_query.s, MAINTENANCE_KEYWORDS)
      /\ ~ContainsKeyword(state.text_query.s, TENANCY_KEYWORDS) )
        => route = "clarification"

C8_Witness ==
    /\ Routed
    /\ state.input_type = "text_only"
    /\ state.text_query.k = "str"
    /\ ContainsKeyword(state.text_query.s, MAINTENANCE_KEYWORDS)
    /\ ~ContainsKeyword(state.text_query.s, TENANCY_KEYWORDS)
    /\ StartsWith(state.text_query.s, <<"i", "s">>)
    /\ Contains(<<"?">>, state.text_query.s)
    /\ route = "clarification"

\* C9: a text_only state whose text contains no tenancy and no maintenance
\* keyword is routed to agent_2_faq if and only if the lower-cased, stripped
\* text starts with a question word or the text contains '?'; otherwise to
\* clarification.
C9_QuestionRoutesToFaq ==
    ( /\ Routed
      /\ state.input_type = "text_only"
      /\ state.text_query.k = "str"
      /\ ~ContainsKeyword(state.text_query.s, MAINTENANCE_KEYWORDS)
      /\ ~ContainsKeyword(state.text_query.s, TENANCY_KEYWORDS) )
        => LET text == Strip(Lower(state.text_query.s))
               question ==
                   \/ \E i \in DOMAIN question_indicators :
                          StartsWith(text, question_indicators[i])
                   \/ \E i \in DOMAIN text : text[i] = "?"
           IN route = IF question THEN "agent_2_faq" ELSE "clarification"

C9_Witness ==
    /\ pc = "routed"
    /\ state.input_type = "text_only"
    /\ state.text_query.k = "str"
    /\ ~ContainsKeyword(state.text_query.s, MAINTENANCE_KEYWORDS)
    /\ ~ContainsKeyword(state.text_query.s, TENANCY_KEYWORDS)
    /\ state.text_query.s # <<>>
    /\ IsSpace(state.text_query.s[1])
    /\ StartsWith(Strip(state.text_query.s), <<"i", "s">>)
    /\ \A i \in DOMAIN state.text_query.s : state.text_query.s[i] # "?"
    /\ route = "agent_2_faq"

(***************************************************************************)
(* models/inputs.py: the UserQuery constructor.  The file-system checks of *)
(* validate_image_path are the environment's: a path either passes them   *)
(* or does not.                                                            *)
(***************************************************************************)
MAX_QUERY_LENGTH == 1000

ValidImagePaths == {"/some/path.jpg"}
QueryImagePaths == {"Missing", "/some/path.jpg", "/nonexistent/path/image.jpg"}
QueryLocations == {"Missing", " ", "London, UK"}

\* "ValidationError" or the validated field
validate_text_query(v) ==
    IF v.k # "str" THEN Get(v)
    ELSE LET s == Strip(v.s)
         IN IF Len(s) = 0 THEN None
            ELSE IF Len(s) > MAX_QUERY_LENGTH THEN [k |-> "ValidationError", s |-> <<>>]
            ELSE Str(s)

validate_image_path(v) ==
    IF v \in {"Missing", "None"} THEN "None"
    ELSE IF v \notin ValidImagePaths THEN "ValidationError"
    ELSE v

validate_location(v) ==
    IF v \in {"Missing", "None"} THEN "None"
    ELSE IF v = " " THEN "None"
    ELSE v

\* a constructor without model_post_init: it accepts a query with no input
UserQuery_no_post_init(query_dict) ==
    LET t == validate_text_query(query_dict.text_query)
        i == validate_image_path(query_dict.image_path)
        l == validate_location(query_dict.user_location)
    IN IF t.k = "ValidationError" \/ i = "ValidationError" THEN ValidationError
       ELSE [ok |-> TRUE, text_query |-> t, image_path |-> i, user_location |-> l]

\* the constructor: field validators, then model_post_init; ok is FALSE
\* when it raises
UserQuery(query_dict) ==
    LET t == validate_text_query(query_dict.text_query)
        i == validate_image_path(query_dict.image_path)
        l == validate_location(query_dict.user_location)
    IN IF t.k = "ValidationError" \/ i = "ValidationError" THEN ValidationError
       ELSE IF ~Truthy(t) /\ ~TruthyTok(i) THEN ValidationError
       ELSE [ok |-> TRUE, text_query |-> t, image_path |-> i, user_location |-> l]

\* user_input.model_dump(exclude_none=True), as the initial AgentState
model_dump(q) ==
    [EmptyState EXCEPT
        !.text_query = IF q.text_query = None THEN Missing ELSE q.text_query,
        !.image_path = IF q.image_path = "None" THEN "Missing" ELSE q.image_path,
        !.user_location = IF q.user_location = "None" THEN "Missing" ELSE q.user_location]

(***************************************************************************)
(* agents/prompts.py and the messages built in the handlers.               *)
(***************************************************************************)
CLARIFICATION_PROMPT == "CLARIFICATION_PROMPT"
ERROR_MESSAGES_no_input == "ERROR_MESSAGES['no_input']"
\* what the remote models may answer: response.content
ModelContents == {"", "analysis", "answer", "answer that depends on your location"}

(***************************************************************************)
(* agents/vision_agent.py: VisionAgent.process.  The outcome of each       *)
(* external capability is the environment's choice.                        *)
(***************************************************************************)
\* _error_response that forgets to ask the user back
VisionErrorResponse_no_clarification(error_message) ==
    [ agent_response |-> error_message, agent_used |-> "agent_1_vision",
      error_message |-> error_message, error_type |-> "VisionAgentError",
      needs_clarification |-> "False" ]

VisionErrorResponse(error_message) ==
    [ agent_response |-> error_message, agent_used |-> "agent_1_vision",
      error_message |-> error_message, error_type |-> "VisionAgentError",
      needs_clarification |-> "True" ]

\* env = [valid, encoded, answered: BOOLEAN, content]; the result is the
\* returned dict and the capabilities invoked on the way, in order
\* state.get('text_query', <the default request>) as formatted into the
\* user message
VisionUserQuery(st) ==
    IF st.text_query = Missing THEN [k |-> "default", s |-> <<>>] ELSE st.text_query

\* a handler that encodes the image before it validates it
VisionProcess_encode_first(st, env) ==
    IF ~TruthyTok(GetTok(st.image_path))
    THEN [out |-> VisionErrorResponse("No image provided"), log |-> <<>>,
          query |-> NotAsked]
    ELSE IF ~env.valid
    THEN [out |-> VisionErrorResponse("validate_image: error_msg"),
          log |-> IF TruthyTok(GetTok(st.base64_image))
                  THEN <<"validate_image">> ELSE <<"encode_image", "validate_image">>,
          query |-> NotAsked]
    ELSE IF ~TruthyTok(GetTok(st.base64_image)) /\ ~env.encoded
    THEN [out |-> VisionErrorResponse("Failed to process image"),
          log |-> <<"encode_image", "validate_image">>, query |-> NotAsked]
    ELSE LET pre == IF TruthyTok(GetTok(st.base64_image))
                    THEN <<"validate_image">>
                    ELSE <<"encode_image", "validate_image">>
             base64_image == IF TruthyTok(GetTok(st.base64_image))
                             THEN st.base64_image ELSE "base64"
         IN IF ~env.answered
            THEN [out |-> VisionErrorResponse("Error analyzing image"),
                  log |-> pre \o <<"vision_model.invoke">>,
                  query |-> VisionUserQuery(st)]
            ELSE [out |-> [ agent_response |-> env.content,
                            agent_used |-> "agent_1_vision",
                            base64_image |-> base64_image,
                            detected_issues |-> "list",
                            suggestions |-> "list",
                            confidence_score |-> "0.85",
                            needs_clarification |-> "False" ],
                  log |-> pre \o <<"vision_model.invoke">>,
                  query |-> VisionUserQuery(st)]

VisionProcess(st, env) ==
    IF ~TruthyTok(GetTok(st.image_path))
    THEN [out |-> VisionErrorResponse("No image provided"), log |-> <<>>,
          query |-> NotAsked]
    ELSE IF ~env.valid
    THEN [out |-> VisionErrorResponse("validate_image: error_msg"),
          log |-> <<"validate_image">>, query |-> NotAsked]
    ELSE IF ~TruthyTok(GetTok(st.base64_image)) /\ ~env.encoded
    THEN [out |-> VisionErrorResponse("Failed to process image"),
          log |-> <<"validate_image", "encode_image">>, query |-> NotAsked]
    ELSE LET pre == IF TruthyTok(GetTok(st.base64_image))
                    THEN <<"validate_image">>
                    ELSE <<"validate_image", "encode_image">>
             base64_image == IF TruthyTok(GetTok(st.base64_image))
                             THEN st.base64_image ELSE "base64"
         IN IF ~env.answered
            THEN [out |-> VisionErrorResponse("Error analyzing image"),
                  log |-> pre \o <<"vision_model.invoke">>,
                  query |-> VisionUserQuery(st)]
            ELSE [out |-> [ agent_response |-> env.content,
                            agent_used |-> "agent_1_vision",
                            base64_image |-> base64_image,
                            detected_issues |-> "list",
                            suggestions |-> "list",
                            confidence_score |-> "0.85",
                            needs_clarification |-> "False" ],
                  log |-> pre \o <<"vision_model.invoke">>,
                  query |-> VisionUserQuery(st)]

(***************************************************************************)
(* agents/faq_agent.py: FAQAgent.process                                   *)
(***************************************************************************)
\* _error_response that drops the message from the answer
FAQErrorResponse_empty(error_message) ==
    [ agent_response |-> "", agent_used |-> "agent_2_faq",
      error_message |-> error_message, error_type |-> "FAQAgentError",
      needs_clarification |-> "True" ]

FAQErrorResponse(error_message) ==
    [ agent_response |-> error_message, agent_used |-> "agent_2_faq",
      error_message |-> error_message, error_type |-> "FAQAgentError",
      needs_clarification |-> "True" ]

_check_needs_location(content, user_location) ==
    IF TruthyTok(user_location) THEN "False"
    ELSE IF content = "answer that depends on your location" THEN "True"
    ELSE "False"

\* a handler that asks the model a second time when the first call raised
FAQProcess_retry(st, env) ==
    IF ~Truthy(GetOr(st.text_query, Str(<<>>)))
    THEN [out |-> FAQErrorResponse("No question provided"), log |-> <<>>,
          query |-> NotAsked]
    ELSE IF ~env.answered
    THEN [out |-> FAQErrorResponse("Error processing question"),
          log |-> <<"faq_model.invoke", "faq_model.invoke">>, query |-> st.text_query]
    ELSE [out |-> [ agent_response |-> env.content,
                    agent_used |-> "agent_2_faq",
                    suggestions |-> "list",
                    confidence_score |-> "0.9",
                    needs_clarification |->
                        _check_needs_location(env.content,
                            IF st.user_location = "Missing" THEN "" ELSE st.user_location) ],
          log |-> <<"faq_model.invoke">>, query |-> st.text_query]

FAQProcess(st, env) ==
    IF ~Truthy(GetOr(st.text_query, Str(<<>>)))
    THEN [out |-> FAQErrorResponse("No question provided"), log |-> <<>>,
          query |-> NotAsked]
    ELSE IF ~env.answered
    THEN [out |-> FAQErrorResponse("Error processing question"),
          log |-> <<"faq_model.invoke">>, query |-> st.text_query]
    ELSE [out |-> [ agent_response |-> env.content,
                    agent_used |-> "agent_2_faq",
                    suggestions |-> "list",
                    confidence_score |-> "0.9",
                    needs_clarification |->
                        _check_needs_location(env.content,
                            IF st.user_location = "Missing" THEN "" ELSE st.user_location) ],
          log |-> <<"faq_model.invoke">>, query |-> st.text_query]

(***************************************************************************)
(* graph/workflow.py                                                       *)
(***************************************************************************)
\* a clarification node that consults the FAQ answer format
clarification_node_no_prompt(st) ==
    [ agent_response |-> "answer", agent_used |-> "clarification",
      needs_clarification |-> "False", confidence_score |-> "1.0" ]

\* a clarification node that does not flag its answer as a question back
clarification_node_not_asking(st) ==
    [ agent_response |-> CLARIFICATION_PROMPT, agent_used |-> "clarification",
      needs_clarification |-> "False", confidence_score |-> "1.0" ]

clarification_node(st) ==
    [ agent_response |-> CLARIFICATION_PROMPT, agent_used |-> "clarification",
      needs_clarification |-> "True", confidence_score |-> "1.0" ]

error_node(st) ==
    LET error_msg == IF TruthyTok(GetTok(st.error_message))
                     THEN st.error_message ELSE ERROR_MESSAGES_no_input
    IN [ agent_response |-> error_msg, agent_used |-> "error",
         error_message |-> error_msg,
         error_type |-> IF st.error_type = "Missing" THEN "UnknownError" ELSE st.error_type,
         needs_clarification |-> "True" ]

\* AgentResponse(...) built from the final state, process_query lines 136-143
AgentResponseOf(result) ==
    [ response |-> IF result.agent_response = "Missing"
                   THEN "No response generated" ELSE result.agent_response,
      agent_used |-> IF result.agent_used = "Missing" THEN "error" ELSE result.agent_used,
      needs_clarification |-> IF result.needs_clarification = "Missing"
                              THEN "False" ELSE result.needs_clarification,
      detected_issues |-> GetTok(result.detected_issues),
      confidence_score |-> GetTok(result.confidence_score),
      suggestions |-> GetTok(result.suggestions) ]

\* models/outputs.py: the field constraints pydantic enforces on construction
AgentResponseValid(r) ==
    /\ r.response # "None"
    /\ r.agent_used \in Destinations
    /\ r.needs_clarification \in {"True", "False"}
    /\ r.confidence_score \in {"None", "0.0", "0.85", "0.9", "1.0"}

\* the except branch answering as if nothing had gone wrong
ExceptResponse_no_clarification(e) ==
    [ response |-> "I encountered an error: " \o e \o ". Please try again.",
      agent_used |-> "error", needs_clarification |-> "False",
      detected_issues |-> "None", confidence_score |-> "None", suggestions |-> "None" ]

\* the except branch of process_query
ExceptResponse(e) ==
    [ response |-> "I encountered an error: " \o e \o ". Please try again.",
      agent_used |-> "error", needs_clarification |-> "True",
      detected_issues |-> "None", confidence_score |-> "0.0", suggestions |-> "None" ]

\* request texts beside the fragment texts: a tenancy keyword that appears
\* only once clean_text has removed a special character
ExtraTexts ==
    { <<"l", "e", "a", "k", " ", "l", "e", "@", "a", "s", "e">> }
QueryTexts == OptTexts \cup {Str(t) : t \in ExtraTexts}

\* texts around the length limit: 'a' * n, bare and wrapped in whitespace
LongTexts ==
    { [i \in 1..n |-> "a"] :
        n \in {MAX_QUERY_LENGTH - 1, MAX_QUERY_LENGTH, MAX_QUERY_LENGTH + 1} }
    \cup { <<" ">> \o [i \in 1..MAX_QUERY_LENGTH |-> "a"] \o <<" ">> }

QueryDicts ==
    { [text_query |-> t, image_path |-> i, user_location |-> l] :
        t \in QueryTexts, i \in QueryImagePaths, l \in QueryLocations }
    \cup
    { [text_query |-> Str(t), image_path |-> "Missing", user_location |-> "Missing"] :
        t \in LongTexts }

VisionEnvs ==
    { [valid |-> v, encoded |-> e, answered |-> a, content |-> c] :
        v \in BOOLEAN, e \in BOOLEAN, a \in BOOLEAN, c \in ModelContents }
FAQEnvs == { [answered |-> a, content |-> c] : a \in BOOLEAN, c \in ModelContents }

\* AgentState dicts handed straight to the compiled graph (chatbot.workflow)
InvokeStates ==
    { [EmptyState EXCEPT !.text_query = t, !.image_path = i, !.error_message = m,
                         !.base64_image = b] :
        t \in {Missing, None, Str(<<>>)} \cup {Str(Fragments[j]) : j \in DOMAIN Fragments},
        i \in ImagePaths,
        m \in {"Missing", "upstream failure"},
        b \in {"Missing", "base64"} }

\* dicts handed to process_query_dict
DictQueryDicts ==
    { [text_query |-> t, image_path |-> i, user_location |-> l] :
        t \in {Missing, None, Str(<<>>)} \cup {Str(Fragments[j]) : j \in DOMAIN Fragments},
        i \in QueryImagePaths, l \in QueryLocations }

\* A caller either builds a UserQuery and calls process_query, or calls
\* process_query_dict with a dict, or invokes the compiled graph of
\* create_workflow with an AgentState of its own.
Init ==
    /\ \/ entry = "process_query" /\ given \in QueryDicts /\ pc = "start"
       \/ entry = "process_query_dict" /\ given \in DictQueryDicts /\ pc = "start"
       \/ entry = "invoke" /\ given \in InvokeStates /\ pc = "invoke"
    /\ found = NoFound
    /\ asked = NotAsked
    /\ other = NoThread
    /\ served = 0
    /\ user_input = NoUserQuery
    /\ state = EmptyState
    /\ route = "None"
    /\ response = NoResponse
    /\ calls = <<>>

\* the caller builds the UserQuery; a ValidationError ends the call there
NewUserQuery ==
    /\ pc = "start"
    /\ IF ~UserQuery(given).ok
       THEN pc' = "ValidationError" /\ UNCHANGED user_input
       ELSE pc' = "process_query" /\ user_input' = UserQuery(given)
    /\ UNCHANGED <<asked, found, other, served, entry, given, state, route, response, calls>>

\* process_query up to workflow.invoke(input_dict): START -> classify_input
\* a graph whose channels keep what the previous run left in them
ProcessQuery_keeps_state ==
    /\ pc = "process_query"
    /\ state' = [state EXCEPT !.text_query = model_dump(user_input).text_query,
                              !.image_path = model_dump(user_input).image_path,
                              !.user_location = model_dump(user_input).user_location]
    /\ pc' = "classify_input"
    /\ UNCHANGED <<asked, found, other, served, entry, given, user_input, route, response, calls>>

ProcessQuery ==
    /\ pc = "process_query"
    /\ state' = model_dump(user_input)
    /\ pc' = "classify_input"
    /\ UNCHANGED <<asked, found, other, served, entry, given, user_input, route, response, calls>>

\* workflow.invoke(state) called directly: START -> classify_input
WorkflowInvoke ==
    /\ pc = "invoke"
    /\ state' = given
    /\ pc' = "classify_input"
    /\ UNCHANGED <<asked, found, other, served, entry, given, user_input, route, response, calls>>

ClassifyInputNode ==
    /\ pc = "classify_input"
    /\ state' = Update(state, classify_input(state))
    /\ calls' = Append(calls, "classify_input")
    /\ pc' = "route_to_agent"
    /\ UNCHANGED <<asked, found, other, served, entry, given, user_input, route, response>>

\* the conditional edge; an exception raised in it leaves invoke
RouteToAgent ==
    /\ pc = "route_to_agent"
    /\ route' = route_to_agent(state)
    /\ pc' = IF route' = "AttributeError" THEN "except" ELSE route'
    /\ UNCHANGED <<asked, found, other, served, entry, given, user_input, state, response, calls>>

Agent1VisionNode ==
    /\ pc = "agent_1_vision"
    /\ \E env \in VisionEnvs :
          LET r == VisionProcess(state, env)
          IN /\ state' = Update(state, r.out)
             /\ calls' = Append(calls, "agent_1_vision") \o r.log
             /\ asked' = r.query
    /\ pc' = "END"
    /\ UNCHANGED <<found, other, served, entry, given, user_input, route, response>>

Agent2FaqNode ==
    /\ pc = "agent_2_faq"
    /\ \E env \in FAQEnvs :
          LET r == FAQProcess(state, env)
          IN /\ state' = Update(state, r.out)
             /\ calls' = Append(calls, "agent_2_faq") \o r.log
             /\ asked' = r.query
    /\ pc' = "END"
    /\ UNCHANGED <<found, other, served, entry, given, user_input, route, response>>

ClarificationNode ==
    /\ pc = "clarification"
    /\ state' = Update(state, clarification_node(state))
    /\ calls' = Append(calls, "clarification")
    /\ pc' = "END"
    /\ UNCHANGED <<asked, found, other, served, entry, given, user_input, route, response>>

ErrorNode ==
    /\ pc = "error"
    /\ state' = Update(state, error_node(state))
    /\ calls' = Append(calls, "error")
    /\ pc' = "END"
    /\ UNCHANGED <<asked, found, other, served, entry, given, user_input, route, response>>

\* invoke returned to process_query: build the AgentResponse; a pydantic error goes to except
\* process_query_dict returns response.model_dump(): the same fields
ProcessQueryReturn ==
    /\ entry \in {"process_query", "process_query_dict"}
    /\ pc = "END"
    /\ response' = IF AgentResponseValid(AgentResponseOf(state))
                   THEN AgentResponseOf(state)
                   ELSE ExceptResponse("ValidationError")
    /\ pc' = "returned"
    /\ UNCHANGED <<asked, found, other, served, entry, given, user_input, state, route, calls>>

ProcessQueryExcept ==
    /\ entry \in {"process_query", "process_query_dict"}
    /\ pc = "except"
    /\ response' = ExceptResponse("'NoneType' object has no attribute 'lower'")
    /\ pc' = "returned_except"
    /\ UNCHANGED <<asked, found, other, served, entry, given, user_input, state, route, calls>>

\* the dict process_query_dict returns from its except branch
ValidationErrorDict ==
    [ response |-> "Validation error: ...", agent_used |-> "error",
      needs_clarification |-> "True", detected_issues |-> "Missing",
      confidence_score |-> "Missing", suggestions |-> "Missing" ]

\* process_query_dict catches what the UserQuery constructor raised
ProcessQueryDictExcept ==
    /\ entry = "process_query_dict"
    /\ pc = "ValidationError"
    /\ response' = ValidationErrorDict
    /\ pc' = "returned_validation_error"
    /\ UNCHANGED <<asked, found, other, served, entry, given, user_input, state, route, calls>>

\* nothing catches an exception that leaves a direct workflow.invoke
InvokeRaises ==
    /\ entry = "invoke"
    /\ pc = "except"
    /\ pc' = "raised"
    /\ UNCHANGED <<asked, found, other, served, entry, given, user_input, state, route, response, calls>>

Next ==
    \/ NewUserQuery
    \/ ProcessQuery
    \/ WorkflowInvoke
    \/ ClassifyInputNode
    \/ RouteToAgent
    \/ Agent1VisionNode
    \/ Agent2FaqNode
    \/ ClarificationNode
    \/ ErrorNode
    \/ ProcessQueryReturn
    \/ ProcessQueryExcept
    \/ ProcessQueryDictExcept
    \/ InvokeRaises

Spec == Init /\ [][Next]_vars

(***************************************************************************)
(* Several calls, one after the other, on the same RealEstateChatbot.      *)
(* What a call left in memory (the last state dict, the last response) is  *)
(* still there when the next call starts.                                  *)
(***************************************************************************)
CallTexts == {Missing, Str(<<"l", "e", "a", "k">>), Str(<<"R", "e", "n", "t">>)}
CallQueryDicts ==
    { [text_query |-> t, image_path |-> i, user_location |-> l] :
        t \in CallTexts, i \in ImagePaths, l \in {"Missing", "London, UK"} }
CallDictQueryDicts ==
    { [text_query |-> t, image_path |-> "Missing", user_location |-> "Missing"] :
        t \in {Missing, Str(<<"R", "e", "n", "t">>)} }
CallInvokeStates ==
    { [EmptyState EXCEPT !.text_query = t, !.image_path = i] :
        t \in {Str(<<>>), None}, i \in ImagePaths }

\* the caller has the result of the call, or its exception
CallEnded ==
    \/ entry = "process_query" /\ pc \in {"returned", "returned_except", "ValidationError"}
    \/ entry = "process_query_dict"
          /\ pc \in {"returned", "returned_except", "returned_validation_error"}
    \/ entry = "invoke" /\ pc \in {"END", "raised"}

InitCalls ==
    /\ entry = "process_query"
    /\ given \in CallQueryDicts
    /\ pc = "start"
    /\ found = NoFound
    /\ asked = NotAsked
    /\ other = NoThread
    /\ served = 0
    /\ user_input = NoUserQuery
    /\ state = EmptyState
    /\ route = "None"
    /\ response = NoResponse
    /\ calls = <<>>

\* the next call on the same chatbot: new locals, the old state dict is
\* garbage that nothing refers to
NewCall ==
    /\ CallEnded
    /\ served < MaxCalls
    /\ served' = served + 1
    /\ \/ entry' = "process_query" /\ given' \in CallQueryDicts /\ pc' = "start"
       \/ entry' = "process_query_dict" /\ given' \in CallDictQueryDicts /\ pc' = "start"
       \/ entry' = "invoke" /\ given' \in CallInvokeStates /\ pc' = "invoke"
    /\ user_input' = NoUserQuery
    /\ route' = "None"
    /\ response' = NoResponse
    /\ calls' = <<>>
    /\ asked' = NotAsked
    /\ UNCHANGED <<found, other, state>>

NextCalls == Next \/ NewCall

SpecCalls == InitCalls /\ [][NextCalls]_vars

(***************************************************************************)
(* One call that is not abandoned: the thread that runs it keeps executing *)
(* the next statement, and every external call returns or raises, so a     *)
(* step that can be taken is taken.                                        *)
(***************************************************************************)
InitLive ==
    /\ \/ entry = "process_query" /\ given \in CallQueryDicts /\ pc = "start"
       \/ entry = "process_query_dict" /\ given \in CallDictQueryDicts /\ pc = "start"
       \/ entry = "invoke" /\ given \in CallInvokeStates /\ pc = "invoke"
    /\ found = NoFound
    /\ asked = NotAsked
    /\ other = NoThread
    /\ served = 0
    /\ user_input = NoUserQuery
    /\ state = EmptyState
    /\ route = "None"
    /\ response = NoResponse
    /\ calls = <<>>

SpecLive == InitLive /\ [][Next]_vars /\ WF_vars(Next)

(***************************************************************************)
(* Two calls on the same RealEstateChatbot from two threads.  The chatbot, *)
(* its compiled graph and the module-level agents are shared and only      *)
(* read; the locals of each call (its UserQuery, the state dict of its     *)
(* graph run, its response) belong to the thread.  The variables hold the  *)
(* running thread's call, other the suspended one's.                       *)
(***************************************************************************)
\* the calls a thread may make: [entry, given, pc] at its start
ThreadCalls ==
    { [entry |-> "process_query", given |-> q, pc |-> "start"] :
        q \in { d \in CallQueryDicts : d.user_location = "Missing" } }
    \cup { [entry |-> "process_query_dict", given |-> q, pc |-> "start"] :
             q \in CallDictQueryDicts }
    \cup { [entry |-> "invoke", given |-> st, pc |-> "invoke"] :
             st \in { c \in CallInvokeStates : c.image_path = "Missing" } }

\* the locals of the call that is running
Context ==
    [ entry |-> entry, given |-> given, user_input |-> user_input, state |-> state,
      pc |-> pc, route |-> route, response |-> response, calls |-> calls,
      asked |-> asked ]

InitConcurrent ==
    /\ \E c \in ThreadCalls : entry = c.entry /\ given = c.given /\ pc = c.pc
    /\ user_input = NoUserQuery
    /\ state = EmptyState
    /\ route = "None"
    /\ response = NoResponse
    /\ calls = <<>>
    /\ found = NoFound
    /\ asked = NotAsked
    /\ served = 0
    /\ \E c \in ThreadCalls :
          other = [ entry |-> c.entry, given |-> c.given, user_input |-> NoUserQuery,
                    state |-> EmptyState, pc |-> c.pc, route |-> "None",
                    response |-> NoResponse, calls |-> <<>>, asked |-> NotAsked ]

\* a switch that leaves the state dict where it is: both calls use one
ContextSwitch_shared_state ==
    /\ other # NoThread
    /\ other' = [Context EXCEPT !.state = other.state]
    /\ entry' = other.entry
    /\ given' = other.given
    /\ user_input' = other.user_input
    /\ pc' = other.pc
    /\ route' = other.route
    /\ response' = other.response
    /\ calls' = other.calls
    /\ asked' = other.asked
    /\ UNCHANGED <<found, served, state>>

\* the scheduler suspends the running thread and resumes the other one
ContextSwitch ==
    /\ other # NoThread
    /\ other' = Context
    /\ entry' = other.entry
    /\ given' = other.given
    /\ user_input' = other.user_input
    /\ state' = other.state
    /\ pc' = other.pc
    /\ route' = other.route
    /\ response' = other.response
    /\ calls' = other.calls
    /\ asked' = other.asked
    /\ UNCHANGED <<found, served>>

NextConcurrent == Next \/ ContextSwitch

SpecConcurrent == InitConcurrent /\ [][NextConcurrent]_vars

(***************************************************************************)
(* Properties of process_query, checked under Spec.                        *)
(***************************************************************************)
Returned == entry = "process_query" /\ pc \in {"returned", "returned_except"}

\* C5: a request with no image whose text normalizes to empty reaches the
\* error node and process_query returns agent_used 'error',
\* needs_clarification true and the static ERROR_MESSAGES['no_input'] text.
C5_NoInputMessage ==
    ( /\ Returned
      /\ ~TruthyTok(user_input.image_path)
      /\ clean_text(user_input.text_query.s) = <<>> )
        => /\ response.agent_used = "error"
           /\ response.needs_clarification = "True"
           /\ response.response = ERROR_MESSAGES_no_input
           /\ \E i \in DOMAIN calls : calls[i] = "error"

\* C10: process_query never raises and returns a well-formed AgentResponse
\* whose agent_used is one of the four names; when an exception leaves the
\* workflow the response has agent_used 'error', needs_clarification true
\* and confidence_score 0.0.
C10_AlwaysWellFormed ==
    /\ entry = "process_query" => pc # "raised"
    /\ Returned =>
          /\ AgentResponseValid(response)
          /\ response.agent_used \in Destinations
          /\ pc = "returned_except" =>
                /\ response.agent_used = "error"
                /\ response.needs_clarification = "True"
                /\ response.confidence_score = "0.0"

C10_Witness ==
    /\ entry = "process_query"
    /\ pc = "returned_except"
    /\ route = "AttributeError"
    /\ response.agent_used = "error"
    /\ response.confidence_score = "0.0"

HandlerFailureMessages ==
    { "validate_image: error_msg", "Failed to process image",
      "Error analyzing image", "Error processing question" }
ModelInvoked == \E i \in DOMAIN calls : calls[i] \in {"vision_model.invoke", "faq_model.invoke"}
NodesRun == SelectSeq(calls, LAMBDA c : c \in {"classify_input"} \cup Destinations)
Finished ==
    \/ entry = "process_query" /\ pc \in {"returned", "returned_except"}
    \/ entry = "invoke" /\ pc \in {"END", "raised"}
TextOnlyRequest == Truthy(user_input.text_query) /\ ~TruthyTok(user_input.image_path)

\* C11: when the request was routed to the vision or faq handler and the
\* handler's external capability failed (validation invalid, encoding or the
\* model call raising), process_query returns normally with agent_used the
\* attempted route, needs_clarification true and the explanatory message.
C11_HandlerFailureReported ==
    ( /\ Returned
      /\ route \in {"agent_1_vision", "agent_2_faq"}
      /\ state.error_message \in HandlerFailureMessages )
        => /\ pc = "returned"
           /\ response.agent_used = route
           /\ response.needs_clarification = "True"
           /\ response.response = state.error_message

C11_Witness ==
    /\ Returned
    /\ route = "agent_1_vision"
    /\ state.error_message = "Failed to process image"
    /\ calls = <<"classify_input", "agent_1_vision", "validate_image", "encode_image">>
    /\ response.agent_used = "agent_1_vision"
    /\ response.needs_clarification = "True"

\* C12: every workflow run is one pass: classify_input runs once and first,
\* then exactly one handler node runs, the one route_to_agent named, and
\* nothing runs after it.
C12_SinglePass ==
    /\ Len(NodesRun) <= 2
    /\ Finished =>
          /\ route \in Destinations
          /\ NodesRun = <<"classify_input", route>>

\* C13: a text-only request whose text contains a maintenance keyword and no
\* tenancy keyword is answered by clarification with needs_clarification
\* true and the static CLARIFICATION_PROMPT, and no remote model is invoked.
C13_MaintenanceClarified ==
    ( /\ Returned
      /\ TextOnlyRequest
      /\ ContainsKeyword(user_input.text_query.s, MAINTENANCE_KEYWORDS)
      /\ ~ContainsKeyword(user_input.text_query.s, TENANCY_KEYWORDS) )
        => /\ response.agent_used = "clarification"
           /\ response.needs_clarification = "True"
           /\ response.response = CLARIFICATION_PROMPT
           /\ ~ModelInvoked

\* C13 as amended: the same for a text-only request whose normalized text
\* (clean_text of the request text) contains a maintenance keyword and no
\* tenancy keyword.
C13_NormalizedMaintenanceClarified ==
    ( /\ Returned
      /\ TextOnlyRequest
      /\ ContainsKeyword(clean_text(user_input.text_query.s), MAINTENANCE_KEYWORDS)
      /\ ~ContainsKeyword(clean_text(user_input.text_query.s), TENANCY_KEYWORDS) )
        => /\ response.agent_used = "clarification"
           /\ response.needs_clarification = "True"
           /\ response.response = CLARIFICATION_PROMPT
           /\ ~ModelInvoked

C13_Witness ==
    /\ Returned
    /\ TextOnlyRequest
    /\ ContainsKeyword(clean_text(user_input.text_query.s), MAINTENANCE_KEYWORDS)
    /\ ~ContainsKeyword(clean_text(user_input.text_query.s), TENANCY_KEYWORDS)
    /\ Contains(<<"@">>, user_input.text_query.s)
    /\ calls = <<"classify_input", "clarification">>
    /\ response.response = CLARIFICATION_PROMPT

NoTextGiven(q) ==
    \/ q.text_query.k # "str"
    \/ \A i \in DOMAIN q.text_query.s : IsSpace(q.text_query.s[i])

\* the dict has no usable input, or names an image that is not on disk
FailsValidation(q) ==
    \/ q.image_path \notin ({"Missing"} \cup ValidImagePaths)
    \/ NoTextGiven(q) /\ q.image_path = "Missing"

\* C15: for a dict that fails UserQuery validation (no text or only
\* whitespace text and no image, or an image path that does not exist),
\* process_query_dict raises nothing, runs no node of the workflow and no
\* handler, and returns a dict with agent_used 'error' and
\* needs_clarification true.
C15_ValidationFailureReported ==
    (entry = "process_query_dict" /\ FailsValidation(given)) =>
        /\ calls = <<>>
        /\ state = EmptyState
        /\ pc \in {"start", "ValidationError", "returned_validation_error"}
        /\ pc = "returned_validation_error" =>
              /\ response.agent_used = "error"
              /\ response.needs_clarification = "True"

\* a dict with whitespace-only text and no image has been answered
C15_Witness ==
    /\ entry = "process_query_dict"
    /\ pc = "returned_validation_error"
    /\ given.text_query.k = "str"
    /\ given.text_query.s # <<>>
    /\ given.image_path = "Missing"
    /\ response = ValidationErrorDict

(***************************************************************************)
(* What the router reads.                                                  *)
(***************************************************************************)
\* states that agree with st on input_type and text_query and differ in
\* one other field
SameTypeAndText(st) ==
    { [st EXCEPT !.user_location = "London, UK"],
      [st EXCEPT !.image_path = IF st.image_path = "Missing"
                                THEN "/some/path.jpg" ELSE "Missing"],
      [st EXCEPT !.agent_used = "agent_2_faq", !.agent_response = "answer",
                 !.needs_clarification = "True"] }

\* states that agree with st on text_query and image_path and differ in one
\* other field
SameTextAndImage(st) ==
    { [st EXCEPT !.user_location = "London, UK"],
      [st EXCEPT !.agent_used = "agent_2_faq", !.agent_response = "answer",
                 !.needs_clarification = "True"] }

\* C16: the routing decision depends only on input_type and text_query, and
\* the classification only on text_query and image_path: a state that
\* differs in user_location, in the image path or in what an earlier run
\* left in the state gets the same decision.  (That two evaluations on the
\* same state agree, and that the argument is left as it was, hold of any
\* operator.)
C16_RouterReadsOnlyTypeAndText ==
    /\ pc \in {"routed", "classified_routed"} =>
          \A st \in SameTypeAndText(state) : route_to_agent(st) = route
    /\ pc = "classified" =>
          \A st \in SameTextAndImage(given) :
              /\ classify_input(st).input_type = state.input_type
              /\ classify_input(st).text_query = state.text_query

\* a tenancy question has been routed, and a located copy of it exists
C16_Witness ==
    /\ pc = "classified_routed"
    /\ route = "agent_2_faq"
    /\ state.user_location = "Missing"
    /\ state.text_query.k = "str"
    /\ ContainsKeyword(state.text_query.s, TENANCY_KEYWORDS)

(***************************************************************************)
(* utils/validators.py: what clean_text returns, as classify_input stores  *)
(* it.                                                                     *)
(***************************************************************************)
\* no whitespace at either end and no two whitespace characters in a row
WhitespaceNormalized(s) ==
    /\ s # <<>> => ~IsSpace(s[1]) /\ ~IsSpace(s[Len(s)])
    /\ \A i \in 1..(Len(s) - 1) : ~(IsSpace(s[i]) /\ IsSpace(s[i + 1]))

\* C19: the result of clean_text has no run of two or more whitespace
\* characters and no leading or trailing whitespace.
C19_CleanTextNormalized ==
    (pc = "classified" /\ given.text_query.k = "str" /\ state.text_query.k = "str") =>
        /\ state.text_query.s = clean_text(given.text_query.s)
        /\ WhitespaceNormalized(state.text_query.s)

(***************************************************************************)
(* utils/validators.py: extract_keywords.                                  *)
(***************************************************************************)
\* text with the case of every letter flipped
SwapCaseChar(c) ==
    IF \E i \in DOMAIN UpperCase : UpperCase[i] = c
    THEN LowerChar(c)
    ELSE IF \E i \in DOMAIN LowerCase : LowerCase[i] = c
         THEN UpperCase[CHOOSE i \in DOMAIN LowerCase : LowerCase[i] = c]
         ELSE c
SwapCase(s) == [i \in DOMAIN s |-> SwapCaseChar(s[i])]

\* where kw stands in list (the tables hold no keyword twice)
IndexOf(kw, list) == CHOOSE i \in DOMAIN list : list[i] = kw

\* kw, lower-cased, occurs in text at some position, whatever the case of
\* the text there
OccursIgnoringCase(kw, text) ==
    \E start \in 1..(Len(text) - Len(kw) + 1) :
        \A k \in 1..Len(kw) : LowerChar(text[start + k - 1]) = LowerChar(kw[k])

\* C20: extract_keywords returns exactly the keywords of the list that
\* occur in the text as a substring, letter case ignored, in the order of
\* the list; an empty text gives an empty result; a text that differs only
\* in letter case gives the same result.
C20_ExtractKeywordsExact ==
    pc = "extracted" =>
        LET text == state.text_query.s
            list == KeywordLists[found.keyword_list]
               res == found.keywords
        IN /\ \A i \in DOMAIN res :
                /\ \E j \in DOMAIN list : list[j] = res[i]
                /\ OccursIgnoringCase(res[i], text)
           /\ \A j \in DOMAIN list :
                OccursIgnoringCase(list[j], text) => \E i \in DOMAIN res : res[i] = list[j]
           /\ \A i \in 1..(Len(res) - 1) :
                IndexOf(res[i], list) < IndexOf(res[i + 1], list)
           /\ text = <<>> => found.keywords = <<>>
           /\ extract_keywords(SwapCase(text), list) = found.keywords

\* a keyword written in capitals in the text has been found
C20_Witness ==
    /\ pc = "extracted"
    /\ found.keyword_list = "TENANCY_KEYWORDS"
    /\ Len(found.keywords) = 4
    /\ \E i \in DOMAIN found.keywords :
          found.keywords[i] = <<"s", "e", "c", "u", "r", "i", "t", "y", " ",
                                "d", "e", "p", "o", "s", "i", "t">>
    /\ \E i \in DOMAIN state.text_query.s : state.text_query.s[i] = "S"

(***************************************************************************)
(* What a request gets when it is the only one the chatbot ever sees.      *)
(***************************************************************************)
\* process_query after workflow.invoke returned st
Respond(st) ==
    IF AgentResponseValid(AgentResponseOf(st))
    THEN AgentResponseOf(st)
    ELSE ExceptResponse("ValidationError")

\* what the node named dest may return on st, over every outcome of the
\* external capabilities
NodeOutputs(dest, st) ==
    CASE dest = "agent_1_vision" -> { VisionProcess(st, env).out : env \in VisionEnvs }
      [] dest = "agent_2_faq" -> { FAQProcess(st, env).out : env \in FAQEnvs }
      [] dest = "clarification" -> { clarification_node(st) }
      [] dest = "error" -> { error_node(st) }

\* the responses process_query may return for the query dict q
SoloResponses(q) ==
    IF ~UserQuery(q).ok THEN {}
    ELSE LET st0 == model_dump(UserQuery(q))
             st1 == Update(st0, classify_input(st0))
             dest == route_to_agent(st1)
         IN IF dest = "AttributeError"
            THEN { ExceptResponse("'NoneType' object has no attribute 'lower'") }
            ELSE { Respond(Update(st1, out)) : out \in NodeOutputs(dest, st1) }

\* C18: in a sequence of calls on one chatbot, what process_query returns
\* is one of the results the same request gets on a chatbot that has
\* served nothing before: it depends on the request and on the outcomes of
\* the handlers during the call, whatever was processed earlier.
C18_NoStateCarriedOver ==
    (entry = "process_query" /\ pc \in {"returned", "returned_except"}) =>
        response \in SoloResponses(given)

\* a maintenance text is answered after two other calls have finished
C18_Witness ==
    /\ served = 2
    /\ entry = "process_query"
    /\ pc = "returned"
    /\ response.agent_used = "clarification"
    /\ response.detected_issues = "None"

\* the state dicts a direct workflow.invoke may return for the state st
SoloStates(st) ==
    LET st1 == Update(st, classify_input(st))
        dest == route_to_agent(st1)
    IN IF dest = "AttributeError" THEN {}
       ELSE { Update(st1, out) : out \in NodeOutputs(dest, st1) }

\* the call with locals c has the result it would have alone
SoloResult(c) ==
    /\ (c.entry \in {"process_query", "process_query_dict"}
            /\ c.pc \in {"returned", "returned_except"})
         => c.response \in SoloResponses(c.given)
    /\ (c.entry = "process_query_dict" /\ c.pc = "returned_validation_error")
         => ~UserQuery(c.given).ok /\ c.response = ValidationErrorDict
    /\ (c.entry = "invoke" /\ c.pc = "END") => c.state \in SoloStates(c.given)
    /\ (c.entry = "invoke" /\ c.pc = "raised") => SoloStates(c.given) = {}

\* C17: two requests processed concurrently on the shared chatbot: under
\* every interleaving of their steps each one gets a result it would get
\* if it were processed alone.
C17_ConcurrentAsAlone ==
    other # NoThread => SoloResult(Context) /\ SoloResult(other)

\* both calls have returned, one from the vision handler and one from the
\* FAQ handler
C17_Witness ==
    /\ other # NoThread
    /\ entry = "process_query" /\ pc = "returned"
    /\ other.entry = "process_query" /\ other.pc = "returned"
    /\ response.agent_used = "agent_1_vision"
    /\ other.response.agent_used = "agent_2_faq"

(***************************************************************************)
(* agents/router.py: the decision table of classify_input.                 *)
(***************************************************************************)
\* the shape the table gives for (image present, normalized text present)
DecisionTable(image, text) ==
    IF image /\ ~text THEN "image_only"
    ELSE IF ~image /\ text THEN "text_only"
    ELSE IF image /\ text THEN "text_and_image"
    ELSE "error"

\* C21: the input_type classify_input reports is the one the decision table
\* gives for (image present, normalized text present), and it is always one
\* of image_only, text_only, text_and_image and error.
C21_DecisionTable ==
    pc = "classified" =>
        /\ state.input_type = DecisionTable(ImagePresent(given), ~TextAbsent(given))
        /\ state.input_type \in {"image_only", "text_only", "text_and_image", "error"}

\* a text with a dropped character and an image have been classified
C21_Witness ==
    /\ pc = "classified"
    /\ state.input_type = "text_and_image"
    /\ given.text_query.k = "str"
    /\ \E i \in DOMAIN given.text_query.s : given.text_query.s[i] = "@"
    /\ state.text_query # given.text_query

(***************************************************************************)
(* models/inputs.py: the length limit of validate_text_query.              *)
(***************************************************************************)
\* the request has gone past the UserQuery constructor
Accepted == entry = "process_query" /\ pc \notin {"start", "ValidationError"}

\* C22: a query is accepted only if its text, stripped of surrounding
\* whitespace, has fewer than 1000 characters; a longer text is rejected
\* with a validation error before any node of the workflow runs.
C22_AcceptedOnlyBelowLimit ==
    (entry = "process_query" /\ given.text_query.k = "str") =>
        /\ Accepted => Len(Strip(given.text_query.s)) < MAX_QUERY_LENGTH
        /\ Len(Strip(given.text_query.s)) >= MAX_QUERY_LENGTH =>
              pc \in {"start", "ValidationError"} /\ calls = <<>>

(***************************************************************************)
(* graph/workflow.py: a call of process_query comes to an end.             *)
(***************************************************************************)
\* process_query has been entered with a UserQuery
InProcessQuery == entry = "process_query" /\ pc = "process_query"

\* C23: every invocation of process_query eventually returns a result: the
\* workflow reaches END after finitely many steps, for every input, and
\* process_query then returns.
C23_ReachesEndAndReturns ==
    /\ InProcessQuery ~> (pc = "END")
    /\ InProcessQuery ~> Returned

(***************************************************************************)
(* The calls of the remote models in one run.                              *)
(***************************************************************************)
ModelCalls ==
    SelectSeq(calls, LAMBDA c : c \in {"vision_model.invoke", "faq_model.invoke"})
NodeRan(node) == \E i \in DOMAIN calls : calls[i] = node

\* C24: in any run at most one model invocation occurs (vision or FAQ,
\* never both), a failed invocation is not repeated, and a run routed to
\* clarification or error invokes no model.
C24_AtMostOneModelCall ==
    /\ Len(ModelCalls) <= 1
    /\ (NodeRan("clarification") \/ NodeRan("error")) => ModelCalls = <<>>
    /\ ModelCalls = <<"vision_model.invoke">> => NodeRan("agent_1_vision")
    /\ ModelCalls = <<"faq_model.invoke">> => NodeRan("agent_2_faq")

\* the FAQ model was called once, raised, and the call has returned
C24_Witness ==
    /\ Returned
    /\ calls = <<"classify_input", "agent_2_faq", "faq_model.invoke">>
    /\ state.error_message = "Error processing question"
    /\ response.needs_clarification = "True"

(***************************************************************************)
(* The text the stages after classify_input work on.                       *)
(***************************************************************************)
\* clean_text(raw) when that is a non-empty text, None otherwise
NormalizedText(raw) ==
    IF raw.k = "str" /\ clean_text(raw.s) # <<>> THEN Str(clean_text(raw.s)) ELSE None

\* C25: once classify_input has run, the state holds clean_text(raw text)
\* when that is non-empty and None otherwise; the router decides on this
\* value, and the query a handler sends to its model is this value, never
\* the raw text of the request.
C25_DownstreamSeesNormalizedText ==
    NodeRan("classify_input") =>
        /\ state.text_query = NormalizedText(given.text_query)
        /\ route # "None" => route = route_to_agent(state)
        /\ asked # NotAsked => asked = NormalizedText(given.text_query)

(***************************************************************************)
(* agents/router.py: route_to_agent on a state without a known shape.      *)
(***************************************************************************)
\* C26: for every state whose input_type is missing or is none of
\* text_only, image_only, text_and_image and error, route_to_agent returns
\* 'error'.
C26_UnknownShapeRoutesToError ==
    (Routed /\ state.input_type \notin InputTypes) => route = "error"

(***************************************************************************)
(* utils/validators.py: clean_text applied to its own result.              *)
(***************************************************************************)
\* C27: clean_text(clean_text(s)) = clean_text(s), so classifying again the
\* text classify_input returned gives the same normalized text and the
\* same shape.
C27_CleanTextIdempotent ==
    /\ (pc = "classified" /\ state.text_query.k = "str") =>
          clean_text(state.text_query.s) = state.text_query.s
    /\ (pc = "reclassified" /\ given.text_query.k = "str" /\ given.text_query.s # <<>>) =>
          /\ state.text_query = NormalizedText(given.text_query)
          /\ state.input_type = DecisionTable(ImagePresent(given), ~TextAbsent(given))

(***************************************************************************)
(* agents/router.py: the text of a request classified as carrying text.    *)
(***************************************************************************)
\* C28: whenever classify_input reports text_only or text_and_image, the
\* text it returns is non-empty and has at least one character that is not
\* whitespace: a text made of whitespace and dropped characters only is
\* never classified as a text query.
C28_TextShapesCarryText ==
    (pc = "classified" /\ state.input_type \in {"text_only", "text_and_image"}) =>
        /\ state.text_query.k = "str"
        /\ \E i \in DOMAIN state.text_query.s : ~IsSpace(state.text_query.s[i])

(***************************************************************************)
(* needs_clarification in the responses of process_query.                  *)
(***************************************************************************)
\* the run called a model and the handler returned the model's content
ModelCallSucceeded ==
    /\ Len(ModelCalls) = 1
    /\ state.error_message = "Missing"
    /\ response.response \in ModelContents

\* C29: in every response process_query returns, agent_used clarification
\* or error comes with needs_clarification true, and needs_clarification
\* false comes only from the vision or FAQ handler after a model call that
\* succeeded.
C29_ClarificationFlag ==
    Returned =>
        /\ response.agent_used \in {"clarification", "error"} =>
              response.needs_clarification = "True"
        /\ response.needs_clarification = "False" =>
              /\ response.agent_used \in {"agent_1_vision", "agent_2_faq"}
              /\ ModelCallSucceeded

\* the FAQ model answered and the response asks nothing back
C29_Witness ==
    /\ Returned
    /\ response.agent_used = "agent_2_faq"
    /\ response.needs_clarification = "False"
    /\ response.response = "answer"
    /\ state.user_location = "Missing"

(***************************************************************************)
(* agents/vision_agent.py: the order of the external calls.                *)
(***************************************************************************)
\* what the vision handler called, in order
VisionCalls ==
    SelectSeq(calls, LAMBDA c : c \in {"validate_image", "encode_image", "vision_model.invoke"})

\* the state handed to the graph already carried an encoded image
EncodedBefore == entry = "invoke" /\ given.base64_image # "Missing"

\* C30: the vision model is invoked only after image validation succeeded
\* and an encoded image is at hand, freshly encoded or already in the
\* state; when validation fails or encoding raises the handler returns its
\* error response without calling the model; encoding is never attempted
\* before validation.
C30_ValidateEncodeInvoke ==
    /\ VisionCalls \in { <<>>, <<"validate_image">>,
                         <<"validate_image", "encode_image">>,
                         <<"validate_image", "encode_image", "vision_model.invoke">>,
                         <<"validate_image", "vision_model.invoke">> }
    /\ VisionCalls = <<"validate_image", "vision_model.invoke">> => EncodedBefore
    /\ (\E i \in DOMAIN VisionCalls : VisionCalls[i] = "encode_image") => ~EncodedBefore
    /\ state.error_message
          \in {"No image provided", "validate_image: error_msg", "Failed to process image"} =>
          /\ ModelCalls = <<>>
          /\ state.agent_used = "agent_1_vision"
          /\ state.needs_clarification = "True"
    /\ state.error_message = "validate_image: error_msg" => VisionCalls = <<"validate_image">>
    /\ state.error_message = "Failed to process image" =>
          VisionCalls = <<"validate_image", "encode_image">>

\* the model was called on an image that came encoded with the state
C30_Witness ==
    /\ entry = "invoke"
    /\ pc = "END"
    /\ given.base64_image = "base64"
    /\ calls = <<"classify_input", "agent_1_vision", "validate_image", "vision_model.invoke">>
    /\ state.agent_response = "analysis"

====
